---- MODULE Spec2Model ----
(***************************************************************************)
(* A model of run_xlm_roberta.py: the checkpoint policy of TPUFitter.fit,  *)
(* the RocAucMeter, DatasetRetriever.__getitem__, the synthetic mixer and  *)
(* exclude_duplicate_sentences.                                            *)
(*                                                                         *)
(* Representation choices, used throughout:                                *)
(*  - a text is a sequence of one-character strings;                       *)
(*  - a class-1 probability is represented by its log-odds, the logit      *)
(*    margin logit[1] - logit[0]: softmax is strictly increasing in the    *)
(*    margin and the probability 0.5 is the margin 0, so every comparison  *)
(*    of probabilities is the same comparison of margins;                  *)
(*  - a score (an area under the ROC curve) is an exact fraction           *)
(*    <<numerator, denominator>> in lowest terms, the integer 0 is <<0,1>>.*)
(***************************************************************************)
EXTENDS Integers, Sequences, FiniteSets, TLC

VARIABLES
    pc,            \* position of the running procedure
    e,             \* loop variable of fit's "for e in range(n_epochs)"
    epoch,         \* self.epoch
    best_score,    \* self.best_score
    final_scores,  \* self.final_scores, the meter train_one_epoch updates
    val_scores,    \* the meter validation() returned (fit's local final_scores)
    ckpts,         \* node-ckpts: file name -> what the file holds
    loaded,        \* the file name run_inference last loaded, <<>> when none
    log,           \* what fit has done so far, in order
    meter,         \* a RocAucMeter driven on its own
    fed,           \* the batches given to meter since its reset: size and positives
    item,          \* the last DatasetRetriever.__getitem__ call
    mix,           \* the last generate_synthesic_sample call
    clean          \* the last exclude_duplicate_sentences call

vars == <<pc, e, epoch, best_score, final_scores, val_scores, ckpts, loaded, log,
          meter, fed, item, mix, clean>>

fitVars == <<e, epoch, best_score, final_scores, val_scores, ckpts, loaded, log>>

----------------------------------------------------------------------------
(* Program constants *)

MAX_LENGTH == 224
TokenThreshold == 60
AucWindow == 10000
n_epochs == 3
batch_size == 7
SkipPercent == 15
SeedMargin == 0

(* Bounds of the model *)

MaxInitIdx == 1
MaxTrainBatches == 1
MaxUpdates == 2
MaxFragments == 3

----------------------------------------------------------------------------
(* Sequences and arithmetic *)

RECURSIVE SumFn(_)
SumFn(f) ==
    IF DOMAIN f = {} THEN 0
    ELSE LET x == CHOOSE y \in DOMAIN f : TRUE
         IN  f[x] + SumFn([y \in DOMAIN f \ {x} |-> f[y]])

RECURSIVE GCD(_, _)
GCD(a, b) == IF b = 0 THEN a ELSE GCD(b, a % b)

Fraction(n, d) == LET g == GCD(n, d) IN <<n \div g, d \div g>>

ScoreGT(a, b) == a[1] * b[2] > b[1] * a[2]

ScoreGE(a, b) == a[1] * b[2] >= b[1] * a[2]

LastN(s, n) == IF Len(s) <= n THEN s ELSE SubSeq(s, Len(s) - n + 1, Len(s))

Count(s, x) == Cardinality({i \in 1..Len(s) : s[i] = x})

----------------------------------------------------------------------------
(* Texts: Python's str and re, on sequences of characters *)

IsSpace(c) == c \in {" ", "\n"}

\* \w of re: here every character but the punctuation and the whitespace
IsWord(c) == c \notin {" ", "\n", ".", "!", "?", "@", "#", ":", "/", "\""}

IsDigit(c) == c \in {"0", "1", "2", "3", "4", "5", "6", "7", "8", "9"}

RECURSIVE LStrip(_)
LStrip(t) == IF t # <<>> /\ IsSpace(Head(t)) THEN LStrip(Tail(t)) ELSE t

RECURSIVE RStrip(_)
RStrip(t) == IF t # <<>> /\ IsSpace(t[Len(t)])
             THEN RStrip(SubSeq(t, 1, Len(t) - 1)) ELSE t

\* str.strip()
Strip(t) == RStrip(LStrip(t))

\* sep.join(parts)
RECURSIVE Join(_, _)
Join(parts, sep) ==
    IF parts = <<>> THEN <<>>
    ELSE IF Len(parts) = 1 THEN parts[1]
    ELSE parts[1] \o sep \o Join(Tail(parts), sep)

\* the characters of t at the positions keep marks, from position i on
RECURSIVE Pick(_, _, _)
Pick(t, keep, i) ==
    IF i > Len(t) THEN <<>>
    ELSE (IF keep[i] THEN <<t[i]>> ELSE <<>>) \o Pick(t, keep, i + 1)

\* re.sub(r'\s+', ' ', text)
CollapseSpaces(t) ==
    LET keep == [i \in 1..Len(t) |-> ~IsSpace(t[i]) \/ i = 1 \/ ~IsSpace(t[i - 1])]
        blank == [i \in 1..Len(t) |-> IF IsSpace(t[i]) THEN " " ELSE t[i]]
    IN  Pick(blank, keep, 1)

\* re.sub(r'[0-9]', '', text)
RemoveDigits(t) == SelectSeq(t, LAMBDA c : ~IsDigit(c))

\* re.sub(r'[0-9"]', '', text)
RemoveDigitsAndQuotes(t) == SelectSeq(t, LAMBDA c : ~IsDigit(c) /\ c # "\"")

\* the last position of the run of non-space characters that holds position i
RECURSIVE RunEnd(_, _)
RunEnd(t, i) == IF i < Len(t) /\ ~IsSpace(t[i + 1]) THEN RunEnd(t, i + 1) ELSE i

\* \b right after position k
Boundary(t, k) == IsWord(t[k]) # (k < Len(t) /\ IsWord(t[k + 1]))

\* where a match of marker[\S]+\b starting at i ends, 0 when there is none:
\* the greedy [\S]+ gives back characters until \b holds
TagEnd(t, i) ==
    LET ends == {k \in (i + 1)..RunEnd(t, i) : Boundary(t, k)}
    IN  IF ends = {} THEN 0 ELSE CHOOSE k \in ends : \A j \in ends : j <= k

\* re.sub(r'#[\S]+\b', '', text) and re.sub(r'@[\S]+\b', '', text)
RECURSIVE RemoveTagged(_, _, _)
RemoveTagged(t, marker, i) ==
    IF i > Len(t) THEN <<>>
    ELSE IF t[i] = marker /\ TagEnd(t, i) # 0
         THEN RemoveTagged(t, marker, TagEnd(t, i) + 1)
         ELSE <<t[i]>> \o RemoveTagged(t, marker, i + 1)

\* a match of https?\S+ starts at i: "http" and at least one more non-space
UrlAt(t, i) ==
    /\ i + 4 <= Len(t)
    /\ SubSeq(t, i, i + 3) = <<"h", "t", "t", "p">>
    /\ ~IsSpace(t[i + 4])

\* re.sub(r'https?\S+', '', text)
RECURSIVE RemoveUrls(_, _)
RemoveUrls(t, i) ==
    IF i > Len(t) THEN <<>>
    ELSE IF UrlAt(t, i) THEN RemoveUrls(t, RunEnd(t, i) + 1)
         ELSE <<t[i]>> \o RemoveUrls(t, i + 1)

\* LANGS.get(lang, 'english')
LangOf(lang) ==
    IF lang = "en" THEN "english"
    ELSE IF lang = "it" THEN "italian"
    ELSE IF lang = "fr" THEN "french"
    ELSE IF lang = "es" THEN "spanish"
    ELSE IF lang = "tr" THEN "turkish"
    ELSE "english"

RECURSIVE SkipSpaces(_, _)
SkipSpaces(t, i) == IF i <= Len(t) /\ IsSpace(t[i]) THEN SkipSpaces(t, i + 1) ELSE i

\* nltk's sent_tokenize, in every language of LANGS: a sentence ends at a
\* ".", "!" or "?" that whitespace follows; the whitespace belongs to no sentence
RECURSIVE SentTokenize(_, _, _, _)
SentTokenize(t, language, i, cur) ==
    IF i > Len(t) THEN (IF cur = <<>> THEN <<>> ELSE <<cur>>)
    ELSE IF t[i] \in {".", "!", "?"} /\ i < Len(t) /\ IsSpace(t[i + 1])
         THEN <<Append(cur, t[i])>> \o SentTokenize(t, language, SkipSpaces(t, i + 1), <<>>)
         ELSE SentTokenize(t, language, i + 1, Append(cur, t[i]))

\* get_sentences
GetSentences(t, lang) == SentTokenize(t, LangOf(lang), 1, <<>>)

SeenJustBefore(sentence, sentences) ==
    sentences # <<>> /\ sentences[Len(sentences)] = sentence

\* "sentence in sentences" of exclude_duplicate_sentences
Seen(sentence, sentences) == \E i \in 1..Len(sentences) : sentences[i] = sentence

\* the loop of exclude_duplicate_sentences over the splitter's sentences
RECURSIVE KeepFirst(_, _)
KeepFirst(todo, sentences) ==
    IF todo = <<>> THEN sentences
    ELSE LET sentence == Strip(Head(todo))
         IN  KeepFirst(Tail(todo),
                       IF Seen(sentence, sentences) THEN sentences
                       ELSE Append(sentences, sentence))

\* exclude_duplicate_sentences
ExcludeDuplicateSentences(t, lang) == Join(KeepFirst(GetSentences(t, lang), <<>>), <<" ">>)

\* clean_text, on a str
CleanText(t, lang) ==
    LET t1 == RemoveDigitsAndQuotes(t)
        t2 == RemoveTagged(t1, "#", 1)
        t3 == RemoveTagged(t2, "@", 1)
        t4 == RemoveUrls(t3, 1)
        t5 == CollapseSpaces(t4)
    IN  Strip(ExcludeDuplicateSentences(t5, lang))

----------------------------------------------------------------------------
(* RocAucMeter *)

\* nn.functional.softmax(y_pred, dim=1)[:, 1], as the log-odds of class 1
Softmax1(logit) == logit[2] - logit[1]

\* sklearn.metrics.roc_auc_score on a binary target: undefined (ValueError)
\* unless both classes are present
OneClassOnly(yt) == Count(yt, 0) = 0 \/ Count(yt, 1) = 0

\* the area under the ROC curve: the fraction of (positive, negative) pairs
\* ranked correctly, a tie counting one half
RocAucScore(yt, yp) ==
    LET Pos == {i \in 1..Len(yt) : yt[i] = 1}
        Neg == {i \in 1..Len(yt) : yt[i] = 0}
        Vals == {yp[i] : i \in Pos}
        np(v) == Cardinality({i \in Pos : yp[i] = v})
        below(v) == Cardinality({j \in Neg : yp[j] < v})
        same(v) == Cardinality({j \in Neg : yp[j] = v})
        num2 == SumFn([v \in Vals |-> np(v) * (2 * below(v) + same(v))])
    IN  Fraction(num2, 2 * Cardinality(Pos) * Cardinality(Neg))

MeterResetNoPositive ==
    [y_true |-> <<0, 0>>, y_pred |-> <<SeedMargin, SeedMargin>>,
     score |-> <<0, 1>>, raised |-> FALSE]

\* RocAucMeter.reset (and __init__, which only calls it)
MeterReset == [y_true |-> <<0, 1>>, y_pred |-> <<SeedMargin, SeedMargin>>,
               score |-> <<0, 1>>, raised |-> FALSE]

MeterUpdateEvicting(m, targets, logits) ==
    LET yt == LastN(m.y_true \o targets, AucWindow)
        yp == LastN(m.y_pred \o [i \in 1..Len(logits) |-> Softmax1(logits[i])],
                    AucWindow)
    IN  IF OneClassOnly(yt)
        THEN [y_true |-> yt, y_pred |-> yp, score |-> m.score, raised |-> TRUE]
        ELSE [y_true |-> yt, y_pred |-> yp, score |-> RocAucScore(yt, yp),
              raised |-> FALSE]

\* RocAucMeter.update: raised is set when roc_auc_score raises, after the
\* two hstack assignments and before score is assigned
MeterUpdate(m, targets, logits) ==
    LET yt == m.y_true \o targets
        yp == m.y_pred \o [i \in 1..Len(logits) |-> Softmax1(logits[i])]
        st == LastN(yt, AucWindow)
        sp == LastN(yp, AucWindow)
    IN  IF OneClassOnly(st)
        THEN [y_true |-> yt, y_pred |-> yp, score |-> m.score, raised |-> TRUE]
        ELSE [y_true |-> yt, y_pred |-> yp, score |-> RocAucScore(st, sp),
              raised |-> FALSE]

----------------------------------------------------------------------------
(* File names in node-ckpts *)

Digit(d) == <<"0", "1", "2", "3", "4", "5", "6", "7", "8", "9">>[d + 1]

RECURSIVE NatToStr(_)
NatToStr(n) == IF n < 10 THEN <<Digit(n)>>
               ELSE NatToStr(n \div 10) \o <<Digit(n % 10)>>

\* Python's formatting of an int inside an f-string
IntToStr(n) == IF n < 0 THEN <<"-">> \o NatToStr(0 - n) ELSE NatToStr(n)

\* f'node-ckpts/best_model{node_count}.bin'
CkptName(n) == <<"best_model">> \o IntToStr(n) \o <<".bin">>

\* len(glob('node-ckpts/*.bin'))
NodeCount(files) == Cardinality({f \in DOMAIN files : f[Len(f)] = ".bin"})

----------------------------------------------------------------------------
(* TPUFitter *)

\* what the data loaders can yield: a training batch holds batch_size samples
\* (drop_last=True); the classifier's logits are its free outputs
TrainBatches ==
    { [targets |-> <<0, 0, 0, 0, 0, 0, 1>>,
       logits |-> <<<<1, 0>>, <<1, 0>>, <<0, 0>>, <<2, 0>>, <<1, 0>>, <<0, 1>>, <<0, 2>>>>],
      [targets |-> <<1, 1, 0, 0, 0, 0, 0>>,
       logits |-> <<<<0, 2>>, <<1, 0>>, <<2, 0>>, <<0, 0>>, <<0, 1>>, <<1, 0>>, <<2, 0>>>>] }

RECURSIVE SeqsUpTo(_, _)
SeqsUpTo(S, n) ==
    IF n = 0 THEN {<<>>}
    ELSE LET shorter == SeqsUpTo(S, n - 1)
         IN  shorter \cup {Append(s, x) : s \in shorter, x \in S}

TrainLoads == SeqsUpTo(TrainBatches, MaxTrainBatches)

\* the validation set is the same in every epoch, the logits are not
ValTargets == <<1, 1, 1, 0, 0, 0, 0>>

ValLogits ==
    { <<<<2, 0>>, <<1, 0>>, <<0, 0>>, <<2, 0>>, <<2, 0>>, <<2, 0>>, <<2, 0>>>>,
      <<<<2, 0>>, <<0, 0>>, <<0, 1>>, <<2, 0>>, <<2, 0>>, <<2, 0>>, <<2, 0>>>>,
      <<<<1, 0>>, <<1, 0>>, <<0, 0>>, <<2, 0>>, <<2, 0>>, <<2, 0>>, <<2, 0>>>> }

ValLoads == {<<[targets |-> ValTargets, logits |-> l]>> : l \in ValLogits}

BestScoreStartHigh == <<4, 5>>

\* self.best_score = 0 in __init__
BestScoreStart == <<0, 1>>

ImprovedOrEqual(score, best) == ScoreGE(score, best)

\* final_scores.avg > self.best_score
Improved(score, best) == ScoreGT(score, best)

SkippedBelowOne(targets) == Count(targets, 1) < 1

\* with01 < self.config.batch_size*0.15
Skipped(targets) == Count(targets, 1) * 100 < batch_size * SkipPercent

\* the body of train_one_epoch's loop, over the batches the loader yields
RECURSIVE TrainLoop(_, _)
TrainLoop(m, batches) ==
    IF batches = <<>> \/ m.raised THEN m
    ELSE LET b == Head(batches)
         IN  IF Skipped(b.targets) THEN TrainLoop(m, Tail(batches))
             ELSE TrainLoop(MeterUpdate(m, b.targets, b.logits), Tail(batches))

\* the calls of the loop body after the skip test, in the order of the code
StepBody ==
    <<"model", "final_scores.update", "losses.update", "loss.backward",
      "optimizer.step", "optimizer.zero_grad">>

\* the calls one pass of the loop body makes on batch b, final_scores being m:
\* none after "continue"; when final_scores.update raises, the pass ends there
TrainStep(m, b) ==
    IF Skipped(b.targets) THEN <<>>
    ELSE IF MeterUpdate(m, b.targets, b.logits).raised THEN SubSeq(StepBody, 1, 2)
    ELSE StepBody

\* one record per batch the loader yields: the batch's size and label-1
\* targets, the calls made on it, and the pairs final_scores gained
RECURSIVE TrainSteps(_, _)
TrainSteps(m, batches) ==
    IF batches = <<>> \/ m.raised THEN <<>>
    ELSE LET b == Head(batches)
             after == TrainLoop(m, <<b>>)
         IN  <<[size |-> Len(b.targets),
                positives |-> Count(b.targets, 1),
                calls |-> TrainStep(m, b),
                pairs |-> Len(after.y_true) - Len(m.y_true)]>>
             \o TrainSteps(after, Tail(batches))

\* the meter train_one_epoch updates and returns: self.final_scores as it is
TrainStartMeter(self_final_scores) == self_final_scores

\* final_scores = RocAucMeter() in validation
ValidationStartMeter == MeterReset

RECURSIVE ValidationLoop(_, _)
ValidationLoop(m, batches) ==
    IF batches = <<>> \/ m.raised THEN m
    ELSE ValidationLoop(MeterUpdate(m, Head(batches).targets, Head(batches).logits),
                        Tail(batches))

\* the files node-ckpts may hold when the fitter is constructed
InitNames == {CkptName(i) : i \in 0..MaxInitIdx} \cup {<<"best_model", ".bin">>}

InitialCkpts == UNION {[S -> {"old"}] : S \in SUBSET InitNames}

\* the name fit saves under: f'node-ckpts/best_model{node_count}.bin'
SavePath(files) == CkptName(NodeCount(files))

\* the name run_inference loads: f'./node-ckpts/best_model{node_count-1}.bin'
LoadPath(files) == CkptName(NodeCount(files) - 1)

\* torch.save(self.model.state_dict(), path): creates or overwrites path
Save(files, path, content) ==
    [f \in DOMAIN files \cup {path} |-> IF f = path THEN content ELSE files[f]]

AfterEpoch(i) == IF i + 1 < n_epochs THEN "train" ELSE "done"

Idle == [op |-> "none"]

FitInit ==
    /\ pc = "train"
    /\ e = 0
    /\ epoch = 0
    /\ best_score = BestScoreStart
    /\ final_scores = MeterReset
    /\ val_scores = MeterReset
    /\ ckpts \in InitialCkpts
    /\ loaded = <<>>
    /\ log = <<>>
    /\ meter = MeterReset
    /\ fed = <<>>
    /\ item = Idle
    /\ mix = Idle
    /\ clean = Idle

\* losses, final_scores = self.train_one_epoch(train_loader)
TrainOneEpoch ==
    /\ pc = "train"
    /\ \E batches \in TrainLoads :
          LET start == TrainStartMeter(final_scores)
              m == TrainLoop(start, batches)
          IN  /\ final_scores' = m
              /\ log' = Append(log, [op |-> "train", e |-> e, start |-> start,
                                     steps |-> TrainSteps(start, batches)])
              /\ pc' = IF m.raised THEN "crashed" ELSE "validation"
    /\ UNCHANGED <<e, epoch, best_score, val_scores, ckpts, loaded,
                   meter, fed, item, mix, clean>>

\* losses, final_scores = self.validation(validation_loader)
Validation ==
    /\ pc = "validation"
    /\ \E batches \in ValLoads :
          LET start == ValidationStartMeter
              m == ValidationLoop(start, batches)
          IN  /\ val_scores' = m
              /\ log' = Append(log, [op |-> "validation", e |-> e, start |-> start,
                                     score |-> m.score])
              /\ pc' = IF m.raised THEN "crashed" ELSE "scheduler"
    /\ UNCHANGED <<e, epoch, best_score, final_scores, ckpts, loaded,
                   meter, fed, item, mix, clean>>

\* self.scheduler.step(metrics=final_scores.avg); self.epoch += 1
SchedulerStep ==
    /\ pc = "scheduler"
    /\ epoch' = epoch + 1
    /\ log' = Append(log, [op |-> "scheduler", e |-> e, metrics |-> val_scores.score])
    /\ pc' = "compare"
    /\ UNCHANGED <<e, best_score, final_scores, val_scores, ckpts, loaded,
                   meter, fed, item, mix, clean>>

\* if final_scores.avg > self.best_score: self.best_score = final_scores.avg
Compare ==
    /\ pc = "compare"
    /\ IF Improved(val_scores.score, best_score)
       THEN /\ best_score' = val_scores.score
            /\ pc' = "save"
            /\ e' = e
       ELSE /\ best_score' = best_score
            /\ pc' = AfterEpoch(e)
            /\ e' = e + 1
    /\ log' = Append(log, [op |-> "compare", e |-> e, score |-> val_scores.score,
                           best |-> best_score])
    /\ UNCHANGED <<epoch, final_scores, val_scores, ckpts, loaded,
                   meter, fed, item, mix, clean>>

\* node_count = len(glob(...)); self.save(f'node-ckpts/best_model{node_count}.bin')
SaveCheckpoint ==
    /\ pc = "save"
    /\ LET path == SavePath(ckpts)
       IN  /\ ckpts' = Save(ckpts, path, e)
           /\ log' = Append(log, [op |-> "save", e |-> e, name |-> path,
                                  existed |-> path \in DOMAIN ckpts,
                                  before |-> NodeCount(ckpts),
                                  after |-> NodeCount(Save(ckpts, path, e))])
    /\ pc' = "run_inference"
    /\ UNCHANGED <<e, epoch, best_score, final_scores, val_scores, loaded,
                   meter, fed, item, mix, clean>>

\* self.run_inference(test_loader): torch.load raises when the file is absent
RunInference ==
    /\ pc = "run_inference"
    /\ LET name == LoadPath(ckpts)
       IN  IF name \in DOMAIN ckpts
           THEN /\ loaded' = name
                /\ log' = Append(log, [op |-> "run_inference", e |-> e, name |-> name,
                                       found |-> TRUE, holds |-> ckpts[name]])
                /\ pc' = AfterEpoch(e)
                /\ e' = e + 1
           ELSE /\ loaded' = loaded
                /\ log' = Append(log, [op |-> "run_inference", e |-> e, name |-> name,
                                       found |-> FALSE, holds |-> "nothing"])
                /\ pc' = "crashed"
                /\ e' = e
    /\ UNCHANGED <<epoch, best_score, final_scores, val_scores, ckpts,
                   meter, fed, item, mix, clean>>

FitNext ==
    \/ TrainOneEpoch
    \/ Validation
    \/ SchedulerStep
    \/ Compare
    \/ SaveCheckpoint
    \/ RunInference

Spec == FitInit /\ [][FitNext]_vars

----------------------------------------------------------------------------
(* What fit did, read off its log *)

S75 == <<3, 4>>
S80 == <<4, 5>>
S85 == <<17, 20>>

Ops(op) == {i \in 1..Len(log) : log[i].op = op}

OpsIn(op, k) == {i \in Ops(op) : log[i].e = k}

EpochOps(k) ==
    LET es == SelectSeq(log, LAMBDA x : x.e = k)
    IN  [i \in 1..Len(es) |-> es[i].op]

IsPrefix(s, t) == Len(s) <= Len(t) /\ s = SubSeq(t, 1, Len(s))

\* the validation score of epoch k has been compared with best_score and the
\* save it may have called for has been made
Settled(k) == OpsIn("compare", k) # {} /\ ~(pc = "save" /\ e = k)

\* epoch k has run to its end, its inference included
Finished(k) == OpsIn("compare", k) # {} /\ (e > k \/ pc = "crashed")

ValScoreOf(k) == log[CHOOSE i \in OpsIn("validation", k) : TRUE].score

ScoresAre(a, b) ==
    /\ Settled(1)
    /\ ValScoreOf(0) = a
    /\ ValScoreOf(1) = b

SavesUpTo(k) == {i \in Ops("save") : log[i].e <= k}

MaxScore(S) == CHOOSE s \in S : \A t \in S : ScoreGE(s, t)

FullEpoch == <<"train", "validation", "scheduler", "compare", "save", "run_inference">>

QuietEpoch == <<"train", "validation", "scheduler", "compare">>

\* C1 as amended: on a freshly constructed fitter the validation scores 0.80
\* then 0.85 give exactly two saves, one after each of the two epochs (0.80
\* improves on the initial best_score 0); 0.80 then 0.75 give exactly one
\* save, after the 0.80 epoch.
C1_SavesOnImprovement ==
    /\ ScoresAre(S80, S85) =>
          /\ Cardinality(SavesUpTo(1)) = 2
          /\ Cardinality(OpsIn("save", 0)) = 1
          /\ Cardinality(OpsIn("save", 1)) = 1
          /\ \A i \in OpsIn("save", 1) : \A j \in OpsIn("validation", 1) : j < i
    /\ ScoresAre(S80, S75) =>
          /\ Cardinality(SavesUpTo(1)) = 1
          /\ OpsIn("save", 1) = {}
          /\ \A i \in OpsIn("save", 0) :
                /\ \A j \in OpsIn("validation", 0) : j < i
                /\ \A j \in OpsIn("train", 1) : i < j

C1_Witness ==
    /\ ScoresAre(S80, S85)
    /\ Cardinality(SavesUpTo(1)) = 2
    /\ pc = "train"
    /\ e = 2

\* C1 as stated: 0.80 then 0.85 give exactly one save, after the 0.85 epoch;
\* 0.80 then 0.75 give no save.
C1_Original ==
    /\ ScoresAre(S80, S85) =>
          /\ Cardinality(SavesUpTo(1)) = 1
          /\ OpsIn("save", 0) = {}
    /\ ScoresAre(S80, S75) => SavesUpTo(1) = {}

\* C2: in every epoch, save immediately followed by run_inference happens if
\* and only if the validation score is strictly greater than best_score as it
\* was before the epoch, after the epoch's validation and scheduler step and
\* before the next epoch's training; otherwise neither happens. best_score is
\* the maximum of 0 and the validation scores seen, so it never decreases.
C2_SaveIffImproved ==
    /\ \A i, j \in 1..Len(log) : i < j => log[i].e <= log[j].e
    /\ \A k \in 0..(n_epochs - 1) :
          /\ IsPrefix(EpochOps(k), FullEpoch)
          /\ \A i \in OpsIn("compare", k) :
                /\ log[i].score = ValScoreOf(k)
                /\ ~ScoreGT(log[i].score, log[i].best) =>
                      EpochOps(k) = QuietEpoch
                /\ (ScoreGT(log[i].score, log[i].best) /\ Settled(k)) =>
                      IsPrefix(QuietEpoch \o <<"save">>, EpochOps(k))
                /\ (ScoreGT(log[i].score, log[i].best) /\ Finished(k)) =>
                      EpochOps(k) = FullEpoch
                /\ log[i].best =
                      MaxScore({<<0, 1>>} \cup
                               {log[j].score : j \in {c \in Ops("compare") : c < i}})
    /\ best_score = MaxScore({<<0, 1>>} \cup {log[j].score : j \in Ops("compare")})

C2_Witness ==
    /\ pc = "done"
    /\ EpochOps(0) = FullEpoch
    /\ EpochOps(1) = QuietEpoch
    /\ EpochOps(2) = FullEpoch
    /\ ValScoreOf(1) = ValScoreOf(0)

\* C3: every run_inference loads exactly the file the save just before it
\* wrote: the name computed from the count after the save equals the name the
\* save used, the file exists, and index -1 is never referenced.
C3_LoadsWhatWasSaved ==
    \A i \in Ops("run_inference") :
        /\ i > 1
        /\ log[i - 1].op = "save"
        /\ log[i].name = log[i - 1].name
        /\ log[i].found
        /\ log[i].name # CkptName(0 - 1)

\* C4: every save writes a file name that did not exist before, so no earlier
\* checkpoint is overwritten and the number of checkpoint files grows by
\* exactly one per save.
C4_SaveNeverOverwrites ==
    \A i \in Ops("save") :
        /\ ~log[i].existed
        /\ log[i].after = log[i].before + 1

\* C5: at the start of every train_one_epoch call and every validation call
\* the meter the phase updates and returns holds only the two seed pairs and
\* score 0.
C5_MeterFreshAtPhaseStart ==
    \A i \in Ops("train") \cup Ops("validation") : log[i].start = MeterReset

\* the batches train_one_epoch has been given so far, over all its calls
TrainedBatches ==
    {<<i, k>> \in (1..Len(log)) \X (1..MaxTrainBatches) :
        log[i].op = "train" /\ k <= Len(log[i].steps)}

StepOf(ik) == log[ik[1]].steps[ik[2]]

\* C12: in train_one_epoch a batch with fewer than 0.15 * batch_size label-1
\* targets (batch_size 7: fewer than 2) is skipped entirely: no model forward
\* call, no update of the loss meter or of the AUC meter, no backward pass
\* and no optimizer step; every other batch goes through forward, the two
\* meter updates, backward, optimizer step and zero_grad, in that order.
C12_SparseBatchSkipped ==
    \A ik \in TrainedBatches :
        LET s == StepOf(ik)
        IN  /\ (s.positives * 100 < 15 * batch_size) <=> s.positives < 2
            /\ s.positives < 2 => s.calls = <<>> /\ s.pairs = 0
            /\ s.positives >= 2 =>
                  /\ s.calls = <<"model", "final_scores.update", "losses.update",
                                 "loss.backward", "optimizer.step",
                                 "optimizer.zero_grad">>
                  /\ s.pairs = s.size

\* one epoch's batch had a single label-1 target and was skipped, the next
\* epoch's batch had two and was trained on
C12_Witness ==
    \E ik, jl \in TrainedBatches :
        /\ ik[1] < jl[1]
        /\ StepOf(ik).positives = 1
        /\ StepOf(ik).calls = <<>>
        /\ StepOf(jl).positives = 2
        /\ Len(StepOf(jl).calls) = 6
        /\ StepOf(jl).pairs = batch_size
        /\ Len(final_scores.y_true) = 2 + batch_size

----------------------------------------------------------------------------
(* RocAucMeter on its own: reset, then updates with batches of any size *)

BatchSizes == {1, batch_size, AucWindow - 1, AucWindow}

BatchKinds == {"zeros", "ones", "both"}

\* the targets of a batch of n samples: all 0, all 1, or 0 and 1 in turn
BatchTargets(n, kind) ==
    [i \in 1..n |-> IF kind = "zeros" THEN 0 ELSE IF kind = "ones" THEN 1 ELSE i % 2]

\* the classifier's logits for a batch of n samples: they follow the position
BatchLogits(n) == [i \in 1..n |-> <<i % 3, 1>>]

MeterBatch(n, kind) == [targets |-> BatchTargets(n, kind), logits |-> BatchLogits(n)]

MeterBatches == {MeterBatch(n, kind) : n \in BatchSizes, kind \in BatchKinds}

fitIdle ==
    /\ e = 0
    /\ epoch = 0
    /\ best_score = BestScoreStart
    /\ final_scores = MeterReset
    /\ val_scores = MeterReset
    /\ ckpts = <<>>
    /\ loaded = <<>>
    /\ log = <<>>

MeterInit ==
    /\ pc = "meter"
    /\ fitIdle
    /\ meter = MeterReset
    /\ fed = <<>>
    /\ item = Idle
    /\ mix = Idle
    /\ clean = Idle

\* RocAucMeter.reset
ResetMeter ==
    /\ pc = "meter"
    /\ meter' = MeterReset
    /\ fed' = <<>>
    /\ UNCHANGED <<pc, fitVars, item, mix, clean>>

\* RocAucMeter.update; an update that raised ends the run
UpdateMeter ==
    /\ pc = "meter"
    /\ ~meter.raised
    /\ Len(fed) < MaxUpdates
    /\ \E n \in BatchSizes, kind \in BatchKinds :
          LET b == MeterBatch(n, kind)
          IN  /\ meter' = MeterUpdate(meter, b.targets, b.logits)
              /\ fed' = Append(fed, [size |-> n, kind |-> kind,
                                     ones |-> Count(b.targets, 1)])
    /\ UNCHANGED <<pc, fitVars, item, mix, clean>>

MeterNext ==
    \/ ResetMeter
    \/ UpdateMeter

SpecMeter == MeterInit /\ [][MeterNext]_vars

\* the slice roc_auc_score is given
ScoredTrue == LastN(meter.y_true, AucWindow)

OneZeroBatch == Len(fed) = 1 /\ fed[1].ones = 0

\* C6 as amended: on a freshly reset meter, update with a single batch of
\* all-label-0 targets of at most 9,999 samples does not raise: the scored
\* slice holds a label-0 and a label-1 entry (the label-1 seed is within the
\* last 10,000 pairs).
C6_ZeroBatchDoesNotRaise ==
    (OneZeroBatch /\ fed[1].size <= AucWindow - 1) =>
        /\ ~meter.raised
        /\ Count(ScoredTrue, 0) >= 1
        /\ Count(ScoredTrue, 1) >= 1

C6_Witness ==
    /\ OneZeroBatch
    /\ fed[1].size = AucWindow - 1
    /\ ~meter.raised
    /\ Len(meter.y_true) = AucWindow + 1

\* C6 as stated: an all-label-0 batch of any size does not raise
C6_Original ==
    OneZeroBatch =>
        /\ ~meter.raised
        /\ Count(ScoredTrue, 0) >= 1
        /\ Count(ScoredTrue, 1) >= 1

RECURSIVE Concat(_)
Concat(ss) == IF ss = <<>> THEN <<>> ELSE Head(ss) \o Concat(Tail(ss))

\* what the updates since the last reset appended, in the order of the calls
FedTrue == Concat([i \in 1..Len(fed) |-> BatchTargets(fed[i].size, fed[i].kind)])

FedPred ==
    Concat([i \in 1..Len(fed) |->
              [j \in 1..fed[i].size |-> Softmax1(BatchLogits(fed[i].size)[j])]])

FedTotal == SumFn([i \in 1..Len(fed) |-> fed[i].size])

HistoryLength == Len(meter.y_true)

ScoredLength == IF HistoryLength <= AucWindow THEN HistoryLength ELSE AucWindow

\* the position in the history of the first scored entry
ScoredFrom == HistoryLength - ScoredLength + 1

\* C11: after any sequence of update calls since the last reset the history
\* is the two seed pairs followed by every appended pair in append order, so
\* it holds exactly 2 + (number of pairs appended) entries and nothing is
\* evicted; the score is taken over exactly the last min(history length,
\* 10000) entries (the last update raised when these hold one class only);
\* both seed pairs are in the scored slice exactly while the history length
\* is at most 10000 (at 10001 the label-1 seed alone is still in it).
C11_HistoryKeptScoreOnTail ==
    /\ HistoryLength = 2 + FedTotal
    /\ Len(meter.y_pred) = HistoryLength
    /\ meter.y_true = <<0, 1>> \o FedTrue
    /\ meter.y_pred = <<SeedMargin, SeedMargin>> \o FedPred
    /\ fed = <<>> => meter.score = <<0, 1>> /\ ~meter.raised
    /\ fed # <<>> =>
          LET st == SubSeq(meter.y_true, ScoredFrom, HistoryLength)
              sp == SubSeq(meter.y_pred, ScoredFrom, HistoryLength)
          IN  /\ Len(st) = ScoredLength
              /\ meter.raised <=> (Count(st, 0) = 0 \/ Count(st, 1) = 0)
              /\ ~meter.raised => meter.score = RocAucScore(st, sp)
    /\ ({1, 2} \subseteq ScoredFrom..HistoryLength) <=> HistoryLength <= AucWindow
    /\ (2 \in ScoredFrom..HistoryLength) <=> HistoryLength <= AucWindow + 1

\* two updates took the history past 10,000 entries: all of them are kept
\* and the score is the one of the last 10,000, which hold no seed pair
C11_Witness ==
    /\ Len(fed) = 2
    /\ fed[1].size = batch_size
    /\ fed[2].size = AucWindow
    /\ fed[2].kind = "both"
    /\ HistoryLength = AucWindow + batch_size + 2
    /\ ScoredFrom = batch_size + 3
    /\ ~meter.raised
    /\ meter.score # RocAucScore(meter.y_true, meter.y_pred)

----------------------------------------------------------------------------
(* clean_text on raw comments *)

\* the pieces raw comments are made of
RawFragments ==
    { <<"a", ".">>, <<"b", "!">>, <<"A", ".">>, <<"a">>, <<" ", "a", ".">>,
      <<"@", "b", "1", ".">>, <<"#", "a", "?">>, <<"h", "t", "t", "p", ":", "/", "x">> }

RawTexts == {Join(fs, <<" ">>) : fs \in SeqsUpTo(RawFragments, MaxFragments)}

Languages == {"en", "ru"}

CleanInit ==
    /\ pc = "clean_text"
    /\ fitIdle
    /\ meter = MeterReset
    /\ fed = <<>>
    /\ item = Idle
    /\ mix = Idle
    /\ \E raw \in RawTexts, lang \in Languages :
          clean = [op |-> "call", raw |-> raw, lang |-> lang]

\* clean_text(text, lang); clean keeps what its last step was given and gave
DoCleanText ==
    /\ pc = "clean_text"
    /\ LET t5 == CollapseSpaces(RemoveUrls(RemoveTagged(RemoveTagged(
                     RemoveDigitsAndQuotes(clean.raw), "#", 1), "@", 1), 1))
       IN  clean' = [op |-> "clean_text", raw |-> clean.raw, lang |-> clean.lang,
                     text |-> t5,
                     sentences |-> GetSentences(t5, clean.lang),
                     deduped |-> ExcludeDuplicateSentences(t5, clean.lang),
                     out |-> CleanText(clean.raw, clean.lang)]
    /\ pc' = "returned"
    /\ UNCHANGED <<fitVars, meter, fed, item, mix>>

CleanNext == DoCleanText

SpecClean == CleanInit /\ [][CleanNext]_vars

\* the distinct trimmed sentences, in the order of their first occurrence
Firsts(sents) == {i \in 1..Len(sents) : \A j \in 1..(i - 1) : Strip(sents[j]) # Strip(sents[i])}

\* t holds part at offset off (the part starts right after position off)
HoldsAt(t, off, part) ==
    /\ off + Len(part) <= Len(t)
    /\ SubSeq(t, off + 1, off + Len(part)) = part

\* the offset of the k-th of the first occurrences in a text that joins them
\* by single spaces
OffsetOf(sents, i) ==
    SumFn([j \in {f \in Firsts(sents) : f < i} |-> Len(Strip(sents[j])) + 1])

\* C10: exclude_duplicate_sentences outputs each distinct trimmed sentence of
\* the splitter's sequence exactly once, in the order of first occurrence,
\* joined by single spaces: later equal sentences are dropped and none is
\* missing.
C10_DuplicatesDropped ==
    clean.op = "clean_text" =>
        LET sents == clean.sentences
            out == clean.deduped
            total == SumFn([j \in Firsts(sents) |-> Len(Strip(sents[j])) + 1])
        IN  /\ Len(out) = IF Firsts(sents) = {} THEN 0 ELSE total - 1
            /\ \A i \in Firsts(sents) :
                  /\ HoldsAt(out, OffsetOf(sents, i), Strip(sents[i]))
                  /\ OffsetOf(sents, i) > 0 => out[OffsetOf(sents, i)] = " "

C10_Witness ==
    /\ clean.op = "clean_text"
    /\ Len(clean.sentences) = 3
    /\ Cardinality(Firsts(clean.sentences)) = 2
    /\ clean.sentences[1] = clean.sentences[3]
    /\ clean.sentences[1] # clean.sentences[2]
    /\ clean.deduped = clean.sentences[1] \o <<" ">> \o clean.sentences[2]

----------------------------------------------------------------------------
(* SynthesicOpenSubtitlesTransform *)

\* self.synthesic_non_toxic and self.synthesic_toxic: cleaned sentences,
\* without duplicates, split by their label
synthesic_non_toxic == { <<"o", "k", ".">>, <<"b", " ", "b">> }

synthesic_toxic == { <<"x", "!">>, <<"y", "y">> }

\* random.randint(a, b): both ends included
RandInt(a, b) == a..b

\* k times texts.append(random.choice(pool)); src says which pool it was
Choices(pool, src, k) == [1..k -> {[src |-> src, text |-> t] : t \in pool}]

\* random.shuffle(texts): any order
Shuffles(texts) ==
    {[i \in 1..Len(texts) |-> texts[p[i]]] : p \in Permutations(1..Len(texts))}

\* random.randint(1, 5), for toxic == 0
NonToxicCounts == RandInt(1, 5)

\* random.randint(0, 2), for the other labels
ToxicNonToxicCounts == RandInt(0, 2)

ToxicCountsFromZero == RandInt(0, 3)

\* random.randint(1, 3), for the other labels
ToxicCounts == RandInt(1, 3)

\* the lists generate_synthesic_sample can hold before it joins them
GenerateSynthesicTexts(text, toxic) ==
    LET own == <<[src |-> "text", text |-> text]>>
        lists ==
            IF toxic = 0
            THEN {own \o c : c \in UNION {Choices(synthesic_non_toxic, "non_toxic", k) :
                                          k \in NonToxicCounts}}
            ELSE {own \o c0 \o c1 :
                    c0 \in UNION {Choices(synthesic_non_toxic, "non_toxic", k) :
                                  k \in ToxicNonToxicCounts},
                    c1 \in UNION {Choices(synthesic_toxic, "toxic", k) :
                                  k \in ToxicCounts}}
    IN  UNION {Shuffles(l) : l \in lists}

\* ' '.join(texts)
JoinTexts(texts) == Join([i \in 1..Len(texts) |-> texts[i].text], <<" ">>)

MixTexts == { <<>>, <<"a", ".">>, <<"o", "k", ".">> }

MixInit ==
    /\ pc = "generate_synthesic_sample"
    /\ fitIdle
    /\ meter = MeterReset
    /\ fed = <<>>
    /\ item = Idle
    /\ clean = Idle
    /\ \E text \in MixTexts, toxic \in {0, 1} :
          mix = [op |-> "call", text |-> text, toxic |-> toxic]

\* generate_synthesic_sample(text, toxic)
GenerateSynthesicSample ==
    /\ pc = "generate_synthesic_sample"
    /\ \E texts \in GenerateSynthesicTexts(mix.text, mix.toxic) :
          mix' = [op |-> "generate", text |-> mix.text, toxic |-> mix.toxic,
                  texts |-> texts, out |-> JoinTexts(texts)]
    /\ pc' = "returned"
    /\ UNCHANGED <<fitVars, meter, fed, item, clean>>

MixNext == GenerateSynthesicSample

SpecMix == MixInit /\ [][MixNext]_vars

From(src) == {i \in 1..Len(mix.texts) : mix.texts[i].src = src}

\* C9: the list generate_synthesic_sample shuffles and joins holds the
\* original text exactly once and besides it, for label 0, 1 to 5 fragments
\* of the non-toxic pool and none of the toxic pool; for label 1, 0 to 2 of
\* the non-toxic pool and 1 to 3 of the toxic pool.
C9_FragmentsByLabel ==
    mix.op = "generate" =>
        /\ Cardinality(From("text")) = 1
        /\ \A i \in From("text") : mix.texts[i].text = mix.text
        /\ \A i \in From("non_toxic") : mix.texts[i].text \in synthesic_non_toxic
        /\ \A i \in From("toxic") : mix.texts[i].text \in synthesic_toxic
        /\ From("text") \cup From("non_toxic") \cup From("toxic") = 1..Len(mix.texts)
        /\ mix.toxic = 0 =>
              /\ Cardinality(From("non_toxic")) \in 1..5
              /\ From("toxic") = {}
        /\ mix.toxic = 1 =>
              /\ Cardinality(From("non_toxic")) \in 0..2
              /\ Cardinality(From("toxic")) \in 1..3

C9_Witness ==
    /\ mix.op = "generate"
    /\ mix.toxic = 1
    /\ From("non_toxic") = {}
    /\ Cardinality(From("toxic")) = 1
    /\ mix.texts[1].src = "toxic"

----------------------------------------------------------------------------
(* The transforms called by DatasetRetriever.__getitem__ *)

\* ExcludeUsersMentionedTransform.apply
ExcludeUsersMentioned(t) == CollapseSpaces(RemoveTagged(t, "@", 1))

\* ExcludeUrlsTransform.apply
ExcludeUrls(t) == CollapseSpaces(RemoveUrls(t, 1))

\* ExcludeNumbersTransform.apply
ExcludeNumbers(t) == CollapseSpaces(RemoveDigits(t))

\* ExcludeHashtagsTransform.apply
ExcludeHashtags(t) == CollapseSpaces(RemoveTagged(t, "#", 1))

\* ExcludeDuplicateSentencesTransform.apply
ExcludeDuplicates(t, lang) == Join(KeepFirst(GetSentences(t, lang), <<>>), <<" ">>)

\* train_transforms(data=(text, lang)): the Compose runs (p=1.0) its five
\* transforms in order, each only when its own draw falls under p=0.95
TrainTransforms(t, lang, runs) ==
    LET t1 == IF runs[1] THEN ExcludeUsersMentioned(t) ELSE t
        t2 == IF runs[2] THEN ExcludeUrls(t1) ELSE t1
        t3 == IF runs[3] THEN ExcludeNumbers(t2) ELSE t2
        t4 == IF runs[4] THEN ExcludeHashtags(t3) ELSE t3
    IN  IF runs[5] THEN ExcludeDuplicates(t4, lang) ELSE t4

TrainTransformsOutcomes(t, lang) ==
    {TrainTransforms(t, lang, runs) : runs \in [1..5 -> BOOLEAN]}

\* get_synthesic_transforms: SynthesicOpenSubtitlesTransform(p=0.5), called
\* as a transform, runs apply only when its draw falls under p
SynthesicRuns == BOOLEAN

\* synthesic_transforms(data=(text, label))['data']
SynthesicTransforms(t, label) ==
    UNION { IF runs
            THEN {[ran |-> TRUE, text |-> JoinTexts(texts)] :
                    texts \in GenerateSynthesicTexts(t, label)}
            ELSE {[ran |-> FALSE, text |-> t]}
            : runs \in SynthesicRuns }

Min(a, b) == IF a <= b THEN a ELSE b

\* the tokenizer's pieces: here one piece for each character but whitespace
Pieces(t) == SelectSeq(t, LAMBDA c : ~IsSpace(c))

\* get_tokens: <s> pieces </s>, cut to MAX_LENGTH and padded to it
GetTokens(t) ==
    LET kept == SubSeq(Pieces(t), 1, Min(Len(Pieces(t)), MAX_LENGTH - 2))
        real == <<"<s>">> \o kept \o <<"</s>">>
    IN  [input_ids |-> real \o [i \in 1..(MAX_LENGTH - Len(real)) |-> "<pad>"],
         attention_mask |-> [i \in 1..MAX_LENGTH |-> IF i <= Len(real) THEN 1 ELSE 0]]

BelowOrAtThreshold(token_length) == token_length <= TokenThreshold

\* token_length < 60
BelowThreshold(token_length) == token_length < TokenThreshold

TrainModeAlways(ds) == TRUE

\* if self.use_train_transforms:
TrainMode(ds) == ds.use_train_transforms

Unbound == [op |-> "getitem", error |-> "UnboundLocalError"]

\* DatasetRetriever.__getitem__(idx): every result it can give
GetItemResults(ds, idx) ==
    LET text == ds.comment_texts[idx]
        lang == ds.langs[idx]
        label == ds.labels_or_ids[idx]
        done(transformed, aug, first, called, ran, final, tokenized, toks) ==
            [op |-> "getitem", ds |-> ds, idx |-> idx, error |-> "none",
             transformed |-> transformed, augmented |-> aug, first |-> first,
             synthesic_called |-> called, mixer_ran |-> ran, text |-> final,
             tokenized |-> tokenized,
             ret |-> <<label, toks.input_ids, toks.attention_mask>>]
    IN  IF TrainMode(ds)
        THEN UNION {
               LET first == GetTokens(aug)
               IN  IF BelowThreshold(Count(first.attention_mask, 1))
                   THEN IF ds.test THEN {Unbound}
                        ELSE {done(TRUE, aug, first, TRUE, o.ran, o.text,
                                   <<aug, o.text>>, GetTokens(o.text)) :
                              o \in SynthesicTransforms(aug, label)}
                   ELSE IF ds.test THEN {Unbound}
                        ELSE {done(TRUE, aug, first, FALSE, FALSE, aug, <<aug>>, first)}
               : aug \in TrainTransformsOutcomes(text, lang)}
        ELSE {done(FALSE, text, GetTokens(text), FALSE, FALSE, text, <<text>>,
                   GetTokens(text))}

Long(n) == [i \in 1..n |-> "a"]

\* rows of train_data.csv
TrainRows ==
    << [comment_text |-> <<"a", ".", " ", "a", ".">>, toxic |-> 0, lang |-> "en"],
       [comment_text |-> Long(TokenThreshold - 3), toxic |-> 1, lang |-> "en"],
       [comment_text |-> Long(TokenThreshold - 2), toxic |-> 0, lang |-> "ru"],
       [comment_text |-> Long(TokenThreshold - 4) \o <<" ", "1", "2">>, toxic |-> 0,
        lang |-> "en"],
       [comment_text |-> Long(TokenThreshold + 6), toxic |-> 1, lang |-> "en"] >>

\* rows of validation.csv and test.csv, each with its id
EvalRows ==
    << [id |-> 100, comment_text |-> <<"a", ".", " ", "a", ".", " ", "@", "b">>,
        toxic |-> 0, lang |-> "en"],
       [id |-> 101, comment_text |-> Long(TokenThreshold - 2), toxic |-> 1, lang |-> "fr"],
       [id |-> 102, comment_text |-> <<>>, toxic |-> 0, lang |-> "en"] >>

Column(rows, f(_)) == [i \in 1..Len(rows) |-> f(rows[i])]

\* train_dataset, validation_tune_dataset, validation_dataset, test_dataset
Datasets ==
    LET raw(r) == r.comment_text
        cleaned(r) == CleanText(r.comment_text, r.lang)
        toxic(r) == r.toxic
        lang(r) == r.lang
        id(r) == r.id
    IN  { [name |-> "train_dataset", labels_or_ids |-> Column(TrainRows, toxic),
           comment_texts |-> Column(TrainRows, raw), langs |-> Column(TrainRows, lang),
           use_train_transforms |-> TRUE, test |-> FALSE],
          [name |-> "validation_tune_dataset", labels_or_ids |-> Column(EvalRows, toxic),
           comment_texts |-> Column(EvalRows, raw), langs |-> Column(EvalRows, lang),
           use_train_transforms |-> TRUE, test |-> FALSE],
          [name |-> "validation_dataset", labels_or_ids |-> Column(EvalRows, toxic),
           comment_texts |-> Column(EvalRows, cleaned), langs |-> Column(EvalRows, lang),
           use_train_transforms |-> FALSE, test |-> FALSE],
          [name |-> "test_dataset", labels_or_ids |-> Column(EvalRows, id),
           comment_texts |-> Column(EvalRows, cleaned), langs |-> Column(EvalRows, lang),
           use_train_transforms |-> FALSE, test |-> TRUE] }

ItemInit ==
    /\ pc = "getitem"
    /\ fitIdle
    /\ meter = MeterReset
    /\ fed = <<>>
    /\ mix = Idle
    /\ clean = Idle
    /\ \E ds \in Datasets :
          \E idx \in 1..Len(ds.comment_texts) :
              item = [op |-> "call", ds |-> ds, idx |-> idx]

\* dataset[idx]
GetItem ==
    /\ pc = "getitem"
    /\ item' \in GetItemResults(item.ds, item.idx)
    /\ pc' = "returned"
    /\ UNCHANGED <<fitVars, meter, fed, mix, clean>>

ItemNext == GetItem

SpecItem == ItemInit /\ [][ItemNext]_vars

Returned == item.op = "getitem" /\ item.error = "none"

\* the number of real tokens of the first tokenization
TokenLength == Count(item.first.attention_mask, 1)

ReturnedTokensOf(t) ==
    /\ item.ret[2] = GetTokens(t).input_ids
    /\ item.ret[3] = GetTokens(t).attention_mask

\* C7 as amended: in training mode, when the augmented text has fewer than 60
\* real tokens the first tokenization is discarded and synthesic_transforms is
\* called on the augmented text and the label; it runs the mixer only when
\* its draw falls under p=0.5 and else gives the text back as it is; the
\* returned tokens are the tokenization of the text it gave. With 60 or more
\* the mixer is not run and the first tokenization is returned.
C7_ShortTextMayBeMixed ==
    (item.op = "getitem" /\ item.ds.use_train_transforms) =>
        /\ Returned
        /\ item.transformed
        /\ item.first = GetTokens(item.augmented)
        /\ TokenLength < 60 =>
              /\ item.synthesic_called
              /\ item.tokenized = <<item.augmented, item.text>>
              /\ ReturnedTokensOf(item.text)
              /\ ~item.mixer_ran => item.text = item.augmented
              /\ item.mixer_ran =>
                    /\ Len(item.text) > Len(item.augmented)
                    /\ \E off \in 0..Len(item.text) :
                          HoldsAt(item.text, off, item.augmented)
        /\ TokenLength >= 60 =>
              /\ ~item.synthesic_called
              /\ ~item.mixer_ran
              /\ item.tokenized = <<item.augmented>>
              /\ item.ret[2] = item.first.input_ids
              /\ item.ret[3] = item.first.attention_mask

C7_Witness ==
    /\ Returned
    /\ item.ds.use_train_transforms
    /\ TokenLength = 59
    /\ item.synthesic_called
    /\ ~item.mixer_ran
    /\ ReturnedTokensOf(item.augmented)

\* C7 as stated: fewer than 60 real tokens always run the mixer and the
\* tokens returned are those of the mixed text
C7_Original ==
    (Returned /\ item.ds.use_train_transforms /\ TokenLength < 60) =>
        /\ item.mixer_ran
        /\ Len(item.text) > Len(item.augmented)
        /\ ReturnedTokensOf(item.text)

\* C8: with use_train_transforms=False neither the augmentation pipeline nor
\* the mixer is invoked, the stored text is tokenized exactly once and
\* unchanged, and the first element returned is the label (test=False) or
\* the row identifier (test=True) at the index.
C8_EvalModeTokenizesOnce ==
    (item.op = "getitem" /\ ~item.ds.use_train_transforms) =>
        /\ Returned
        /\ ~item.transformed
        /\ ~item.synthesic_called
        /\ ~item.mixer_ran
        /\ item.tokenized = <<item.ds.comment_texts[item.idx]>>
        /\ ReturnedTokensOf(item.ds.comment_texts[item.idx])
        /\ ~item.ds.test => item.ret[1] = EvalRows[item.idx].toxic
        /\ item.ds.test => item.ret[1] = EvalRows[item.idx].id

C8_Witness ==
    /\ Returned
    /\ item.ds.test
    /\ item.ret[1] = 100
    /\ Count(item.ret[3], 1) < 60
    /\ item.tokenized = <<item.ds.comment_texts[1]>>

====
